---- MODULE Spec2Model ----
(***************************************************************************)
(* State-synchronisation core of the stream-weaver video client.           *)
(*                                                                         *)
(* The React components are modelled as state machines: every useState     *)
(* cell is a variable, every event handler is an action up to its first    *)
(* await, and every continuation after an await is an action of its own.   *)
(* A handler closes over the values of the render in which it was created; *)
(* the values a continuation reads after an await are therefore the ones   *)
(* captured when the handler was invoked, and are kept in the record of    *)
(* the call in flight.  Rendering is taken to follow every state update    *)
(* at once, so a handler invoked by a click sees the current state.        *)
(*                                                                         *)
(* The remote service is the environment: it holds the viewer's reaction   *)
(* per subject and answers reads with the state it has at that moment.     *)
(***************************************************************************)
EXTENDS Integers, Sequences, FiniteSets, TLC

\* ---------------------------------------------------------------- bounds
MaxToggles == 3      \* reaction clicks in one run of a single component
MaxFetches == 3      \* fetchComments requests in one run of the comment section alone
PageToggles == 2     \* reaction clicks in one run of the whole watch page
PageFetches == 2     \* fetchComments requests in one run of the whole watch page,
                     \* when the clicks go to the comments
ManyResults == 145   \* results the service finds for search query 1: vPage 1 asks for page 12
FewResults == 2      \* results the service finds for search query 2
MaxLoads == 4        \* search requests in one run of the search page
MaxQueryChanges == 2 \* changes of the search query in one run
MaxTabSwitches == 2  \* changes of the active tab in one run of the search page
MaxSubscribeClicks == 4 \* clicks on the subscribe button of the channel page
OtherSubscribers == 2   \* subscribers of the channel other than the viewer
NumComments == 11    \* comments the server holds for the watched video
OtherLikes == 4      \* likes of other viewers on a comment that has some
OtherDislikes == 2   \* dislikes of other viewers on a comment that has some
ManyComments == 25   \* comments of a video with several pages of them
MaxInserts == 1      \* comments other viewers post while the section is shown
PagingToggles == 1   \* reaction clicks in one run of the paging of comments
PagingFetches == 4   \* fetchComments requests in one run of the paging of comments
FeedFetches == 4     \* fetchComments requests in one run of the paging without clicks
NumSources == 3      \* subscribed channels of the long subscription feed
PerSource == 9       \* videos of each channel of the long subscription feed
MaxRefetch == 1      \* times the subscription data is fetched again in one run
MaxNavigations == 2  \* navigations from one watched video to another in one run
MaxPosition == 12    \* length in seconds of the video played
PerSecond == 2       \* playback positions told apart within one second
MaxRenders == 2      \* renders of the watch page after its first with the video

\* ------------------------------------------------------ program constants
PAGE_SIZE == 10
LIMIT == 12
THROTTLE_SECONDS == 5
SUBS_PAGE_SIZE == 12

Reactions == {"like", "dislike", "none"}
Kinds == {"like", "dislike"}
NoRec == [id |-> 0]

VARIABLES
    token,              \* AuthContext: token is set
    channel,            \* AuthContext: channel is set
    srvVideoReaction,   \* service: the viewer's reaction on the watched video
    srvCommentReaction, \* service: the viewer's reaction per tracked comment
    srvOthers,          \* service: the other viewers' likes and dislikes of a tracked comment
    srvCount,           \* service: comments of the video when the section was mounted
    srvInserted,        \* service: comments posted on the video since then
    video,              \* WatchPage: video (its like_count, dislike_count)
    userReaction,       \* WatchPage: userReaction
    reactionCalls,      \* WatchPage: handleReaction calls in flight
    comments,           \* CommentSection: comments
    currentPage,        \* CommentSection: currentPage
    hasMore,            \* CommentSection: hasMore
    isLoading,          \* CommentSection: isLoading
    commentCalls,       \* CommentSection: handleCommentReaction calls in flight
    fetches,            \* CommentSection: fetchComments calls in flight
    nFetch,             \* fetchComments requests issued so far
    clicks,             \* reaction clicks so far
    budget,             \* clicks and fetchComments requests one run may make
    log,                \* observation of the run (history, not program state)
    query,              \* SearchPage: the q parameter of the route (0 is the empty query)
    videos,             \* SearchPage: videos
    vPage,              \* SearchPage: vPage
    vHasMore,           \* SearchPage: vHasMore
    vLoading,           \* SearchPage: vLoading
    vLoads,             \* SearchPage: load() calls of the fetch-videos effect in flight
    nLoads,             \* load() calls so far
    nQueries,           \* query changes so far
    activeTab,          \* SearchPage: activeTab
    channels,           \* SearchPage: channels
    cPage,              \* SearchPage: cPage
    cHasMore,           \* SearchPage: cHasMore
    cLoading,           \* SearchPage: cLoading
    cLoads,             \* SearchPage: load() calls of the fetch-channels effect in flight
    nTabs,              \* changes of the active tab so far
    srvSources,         \* service: per subscribed channel, the upload times of its videos
    subscriptions,      \* SubscriptionsPage: subscriptions (how many)
    allChannelVideos,   \* SubscriptionsPage: allChannelVideos
    subVideos,          \* SubscriptionsPage: videos
    subPage,            \* SubscriptionsPage: page
    subHasMore,         \* SubscriptionsPage: hasMore
    subLoading,         \* SubscriptionsPage: loading
    subLoads,           \* SubscriptionsPage: fetchData calls in flight
    subFetched,         \* channels whose videos the latest fetchData obtained
    nRefetch,           \* fetchData calls after the first
    videoId,            \* WatchPage: the videoId parameter of the route
    subjectOf,          \* WatchPage: per state cell set by loadVideoData, the video it was loaded for
    pageLoading,        \* WatchPage: isLoading
    pageLoads,          \* WatchPage: loadVideoData calls in flight
    loadFailed,         \* some loadVideoData of the run failed
    nNav,               \* navigations so far
    currentTime,        \* VideoPlayer: video.currentTime, in 1/PerSecond seconds
    lastReportedTime,   \* VideoPlayer: lastReportedTime.current, same unit
    progressWrites,     \* updateWatchHistory requests issued, in order
    script,             \* how far the ticks so far follow Scenario, -1 once they left it
    nSeeks,             \* seeks so far
    nRenders,           \* renders of the watch page after the first
    progBudget          \* what the run may make: seeks, renders, ticks up to a position, navigations, replays left

fixedVars == <<token, channel, budget>>
srvVars == <<srvVideoReaction, srvCommentReaction, srvOthers, srvCount, srvInserted>>
VARIABLES
    isSubscribed,       \* ChannelPage: useState isSubscribed
    channelData,        \* ChannelPage: useState channelData (its subscriber_count)
    loadedChannel,      \* what loadChannel read from the service: count and subscription
    srvSubscribed,      \* service: the viewer is subscribed to the channel
    subscribeCalls,     \* handleSubscribe runs waiting at their await
    nSubscribe          \* clicks on the subscribe button so far

watchVars == <<video, userReaction, reactionCalls>>
channelPageVars == <<isSubscribed, channelData, loadedChannel, srvSubscribed, subscribeCalls,
                    nSubscribe>>
channelFeed == <<channels, cPage, cHasMore, cLoading, cLoads>>
searchVars == <<query, videos, vPage, vHasMore, vLoading, vLoads, nLoads, nQueries,
               activeTab, channelFeed, nTabs>>
subsVars == <<srvSources, subscriptions, allChannelVideos, subVideos, subPage, subHasMore,
             subLoading, subLoads, subFetched, nRefetch>>
navVars == <<videoId, subjectOf, pageLoading, pageLoads, loadFailed, nNav>>
\* the pages other than the watch page and the search page, and the loading of the
\* watch page
progVars == <<currentTime, lastReportedTime, progressWrites, script, nSeeks, nRenders,
             progBudget>>
otherPages == <<subsVars, navVars, progVars, channelPageVars>>
\* the state of the pages an action of the watch page leaves alone
elsewhere == <<searchVars, otherPages>>
sectionVars == <<comments, currentPage, hasMore, isLoading, commentCalls, fetches, nFetch>>
vars == <<token, channel, srvVideoReaction, srvCommentReaction, srvOthers, srvCount, srvInserted,
          video, userReaction,
          reactionCalls, comments, currentPage, hasMore, isLoading, commentCalls,
          fetches, nFetch, clicks, budget, log,
          activeTab, channels, cPage, cHasMore, cLoading, cLoads, nTabs,
          query, videos, vPage, vHasMore, vLoading, vLoads, nLoads, nQueries,
          srvSources, subscriptions, allChannelVideos, subVideos, subPage, subHasMore,
          subLoading, subLoads, subFetched, nRefetch,
          videoId, subjectOf, pageLoading, pageLoads, loadFailed, nNav,
          currentTime, lastReportedTime, progressWrites, script, nSeeks, nRenders,
          progBudget,
          isSubscribed, channelData, loadedChannel, srvSubscribed, subscribeCalls, nSubscribe>>

\* --------------------------------------------------------------- helpers
Min(a, b) == IF a < b THEN a ELSE b

Count(b) == IF b THEN 1 ELSE 0

\* AuthContext value: isAuthenticated is !!token
isAuthenticated == token

\* The toggle rule of both handlers.
NextReactionSame(currentReaction, type) == type

NextReaction(currentReaction, type) ==
    IF currentReaction = type THEN "none" ELSE type

\* ------------------------------------------------------------- the service
\* Comments the viewer reacts to in a run; the other comments keep "none".
Tracked == {1}

SrvReaction(c) == IF c \in Tracked THEN srvCommentReaction[c] ELSE "none"

BaseLikes(c) == IF c \in Tracked THEN srvOthers.likes ELSE 0

BaseDislikes(c) == IF c \in Tracked THEN srvOthers.dislikes ELSE 0

\* The comment as listComments returns it (no userReaction yet).
SrvComment(c) ==
    [id |-> c,
     like_count |-> BaseLikes(c) + Count(SrvReaction(c) = "like"),
     dislike_count |-> BaseDislikes(c) + Count(SrvReaction(c) = "dislike"),
     userReaction |-> "none"]

\* The ids of the video's comments in the order the service lists them, newest first:
\* the comments posted since the mount, then the ones held at the mount.
SrvCommentIds ==
    [p \in 1..(srvInserted + srvCount) |->
        IF p <= srvInserted THEN srvCount + (srvInserted - p) + 1 ELSE p - srvInserted]

\* listComments(videoId, page, PAGE_SIZE)
ListCommentsPage(page) ==
    [i \in 1..Min(PAGE_SIZE, IF Len(SrvCommentIds) > page * PAGE_SIZE
                             THEN Len(SrvCommentIds) - page * PAGE_SIZE ELSE 0)
        |-> SrvComment(SrvCommentIds[page * PAGE_SIZE + i])]

\* getVideoDetail(videoId, viewer): the counts of the watched video
SrvVideo ==
    [like_count |-> Count(srvVideoReaction = "like"),
     dislike_count |-> Count(srvVideoReaction = "dislike")]

\* ------------------------------------------------------------------- log
NoToggle == [id |-> 0, type |-> "none", before |-> NoRec, after |-> NoRec, len |-> 0]

InitLog ==
    [writes |-> 0,            \* setReaction requests issued
     videoIntent |-> "unset", \* reaction asked for by the latest video click
     failed |-> FALSE,        \* some setReaction of the run failed
     listFailed |-> FALSE,    \* some listComments of the run failed
     chain |-> NoToggle,      \* comment clicks of one kind in a row, and the comment before them
     lastClick |-> [c \in Tracked |-> 0], \* number of the latest click per comment
     failedToggle |-> NoToggle, \* a failed comment toggle that was the latest on its comment
     historyOk |-> {},        \* updateWatchHistory requests that succeeded, by their order of issue
     historyFailed |-> {}]    \* updateWatchHistory requests that failed

\* ------------------------------------------------------------- WatchPage

\* the guard of handleReaction that declines the click (videoId is set on this page)
WatchDeclinesNever == FALSE

WatchDeclines == ~channel \/ ~token

\* handleReaction up to its first await
handleReaction(type) ==
    /\ clicks < budget.video
    /\ clicks' = clicks + 1
    /\ IF WatchDeclines
       THEN UNCHANGED <<reactionCalls, log>>
       ELSE LET newReaction == NextReaction(userReaction, type)
            IN /\ reactionCalls' = reactionCalls \cup
                     {[n |-> clicks + 1, type |-> type, cur |-> userReaction,
                       reaction |-> newReaction, pc |-> "sent", resp |-> SrvVideo]}
               /\ log' = [log EXCEPT !.writes = @ + 1,
                                     !.videoIntent = newReaction]
    /\ UNCHANGED <<fixedVars, elsewhere, srvVars, video, userReaction, sectionVars>>

\* the service applies a setReaction on the video
ServeVideoReaction(r) ==
    /\ r.pc = "sent"
    /\ srvVideoReaction' = r.reaction
    /\ reactionCalls' = (reactionCalls \ {r}) \cup {[r EXCEPT !.pc = "applied"]}
    /\ UNCHANGED <<fixedVars, elsewhere, srvCommentReaction, srvOthers, srvCount, srvInserted, video, userReaction, sectionVars,
                   clicks, log>>

\* await api.setReaction resolves: setUserReaction(newReaction), then getVideoDetail is sent
VideoReactionOk(r) ==
    /\ r.pc = "applied"
    /\ userReaction' = r.reaction
    /\ reactionCalls' = (reactionCalls \ {r}) \cup {[r EXCEPT !.pc = "detail"]}
    /\ UNCHANGED <<fixedVars, elsewhere, srvVars, video, sectionVars, clicks, log>>

\* await api.setReaction rejects (before or after the service applied it): catch, toast
VideoReactionFail(r) ==
    /\ r.pc \in {"sent", "applied"}
    /\ reactionCalls' = reactionCalls \ {r}
    /\ log' = [log EXCEPT !.failed = TRUE]
    /\ UNCHANGED <<fixedVars, elsewhere, srvVars, video, userReaction, sectionVars, clicks>>

\* the service answers getVideoDetail
ServeVideoDetail(r) ==
    /\ r.pc = "detail"
    /\ reactionCalls' = (reactionCalls \ {r}) \cup {[r EXCEPT !.pc = "detailRead", !.resp = SrvVideo]}
    /\ UNCHANGED <<fixedVars, elsewhere, srvVars, video, userReaction, sectionVars, clicks, log>>

\* await api.getVideoDetail resolves: setVideo(updated)
VideoDetailOk(r) ==
    /\ r.pc = "detailRead"
    /\ video' = r.resp
    /\ reactionCalls' = reactionCalls \ {r}
    /\ UNCHANGED <<fixedVars, elsewhere, srvVars, userReaction, sectionVars, clicks, log>>

\* await api.getVideoDetail rejects: catch, toast
VideoDetailFail(r) ==
    /\ r.pc \in {"detail", "detailRead"}
    /\ reactionCalls' = reactionCalls \ {r}
    /\ UNCHANGED <<fixedVars, elsewhere, srvVars, video, userReaction, sectionVars, clicks, log>>

\* -------------------------------------------------------- CommentSection

Displayed(c) == \E i \in 1..Len(comments) : comments[i].id = c

\* comments.find(c => c.comment_id === commentId)
FindComment(c) ==
    comments[CHOOSE i \in 1..Len(comments) :
                /\ comments[i].id = c
                /\ \A j \in 1..(i - 1) : comments[j].id # c]

\* the body of the optimistic setComments(prev => prev.map(...)) for one comment
OptimisticNoDecrement(c, currentReaction, newReaction) ==
    [c EXCEPT !.userReaction = newReaction,
              !.like_count = @ + Count(newReaction = "like"),
              !.dislike_count = @ + Count(newReaction = "dislike")]

Optimistic(c, currentReaction, newReaction) ==
    [c EXCEPT !.userReaction = newReaction,
              !.like_count = @ - Count(currentReaction = "like") + Count(newReaction = "like"),
              !.dislike_count = @ - Count(currentReaction = "dislike")
                                  + Count(newReaction = "dislike")]

\* fetchComments(page, isInitial) up to its first await; isLoading is the value its
\* closure holds
fetchComments(page, isInitial, closureLoading) ==
    IF closureLoading
    THEN UNCHANGED <<isLoading, fetches, nFetch>>
    ELSE /\ nFetch < budget.fetches
         /\ nFetch' = nFetch + 1
         /\ isLoading' = TRUE
         /\ fetches' = fetches \cup
               {[n |-> nFetch + 1, page |-> page, isInitial |-> isInitial, pc |-> "list",
                 data |-> <<>>, todo |-> <<>>]}

\* the guard of handleCommentReaction that declines the click
SectionDeclines == ~isAuthenticated \/ ~channel \/ ~token

\* handleCommentReaction up to its first await
handleCommentReaction(c, type) ==
    /\ clicks < budget.comment
    /\ c \in Tracked
    /\ Displayed(c)
    /\ clicks' = clicks + 1
    /\ IF SectionDeclines
       THEN UNCHANGED <<comments, commentCalls, log>>
       ELSE LET currentComment == FindComment(c)
                currentReaction == currentComment.userReaction
                newReaction == NextReaction(currentReaction, type)
                after == Optimistic(currentComment, currentReaction, newReaction)
            IN /\ comments' = [i \in 1..Len(comments) |->
                                 IF comments[i].id = c
                                 THEN Optimistic(comments[i], currentReaction, newReaction)
                                 ELSE comments[i]]
               /\ commentCalls' = commentCalls \cup
                     {[n |-> clicks + 1, id |-> c, type |-> type,
                       currentComment |-> currentComment, reaction |-> newReaction,
                       loading |-> isLoading, pc |-> "sent"]}
               /\ log' = [log EXCEPT !.writes = @ + 1,
                                     !.chain = IF @.id = c /\ @.type = type /\ @.len = 1
                                               THEN [@ EXCEPT !.after = after, !.len = 2]
                                               ELSE [id |-> c, type |-> type,
                                                     before |-> currentComment,
                                                     after |-> after, len |-> 1],
                                     !.lastClick[c] = clicks + 1,
                                     !.failedToggle = IF @.id = c THEN NoToggle ELSE @]
    /\ UNCHANGED <<fixedVars, elsewhere, srvVars, watchVars, currentPage, hasMore, isLoading, fetches, nFetch>>

\* the service applies a setReaction on a comment
ServeCommentReaction(r) ==
    /\ r.pc = "sent"
    /\ srvCommentReaction' = [srvCommentReaction EXCEPT ![r.id] = r.reaction]
    /\ commentCalls' = (commentCalls \ {r}) \cup {[r EXCEPT !.pc = "applied"]}
    /\ UNCHANGED <<fixedVars, elsewhere, srvVideoReaction, srvOthers, srvCount, srvInserted, watchVars, comments, currentPage, hasMore,
                   isLoading, fetches, nFetch, clicks, log>>

\* await api.setReaction resolves: nothing more is done
CommentReactionOk(r) ==
    /\ r.pc = "applied"
    /\ commentCalls' = commentCalls \ {r}
    /\ UNCHANGED <<fixedVars, elsewhere, srvVars, watchVars, comments, currentPage, hasMore,
                   isLoading, fetches, nFetch, clicks, log>>

\* await api.setReaction rejects (before or after the service applied it):
\* catch, toast, fetchComments(0, true)
CommentReactionFail(r) ==
    /\ r.pc \in {"sent", "applied"}
    /\ commentCalls' = commentCalls \ {r}
    /\ fetchComments(0, TRUE, r.loading)
    /\ log' = [log EXCEPT !.failed = TRUE,
                          !.failedToggle =
                              IF log.lastClick[r.id] = r.n
                              THEN [id |-> r.id, type |-> r.type, before |-> r.currentComment,
                                    after |-> Optimistic(r.currentComment,
                                                         r.currentComment.userReaction,
                                                         r.reaction),
                                    len |-> 1]
                              ELSE @]
    /\ UNCHANGED <<fixedVars, elsewhere, srvVars, watchVars, comments, currentPage, hasMore, clicks>>

\* positions of the page whose reaction is read from the service
EnrichTodo(data) ==
    IF isAuthenticated /\ channel
    THEN LET F[i \in 0..Len(data)] ==
                 IF i = 0 THEN <<>>
                 ELSE IF data[i].id \in Tracked THEN Append(F[i - 1], i) ELSE F[i - 1]
         IN F[Len(data)]
    ELSE <<>>

\* the end-of-data test of fetchComments
ShortPageEmptyOnly(n) == n = 0

ShortPage(n) == n < PAGE_SIZE

\* hasMore once a page of n comments has arrived: if (data.length < PAGE_SIZE)
\* setHasMore(false)
HasMoreAssigned(n, prev) == ~ShortPage(n)

HasMoreAfter(n, prev) == IF ShortPage(n) THEN FALSE ELSE prev

\* await api.listComments resolves
ListCommentsOk(f) ==
    /\ f.pc = "list"
    /\ LET data == ListCommentsPage(f.page)
       IN /\ hasMore' = HasMoreAfter(Len(data), hasMore)
          /\ fetches' = (fetches \ {f}) \cup
                {[f EXCEPT !.pc = "enrich", !.data = data, !.todo = EnrichTodo(data)]}
    /\ UNCHANGED <<fixedVars, elsewhere, srvVars, watchVars, comments, currentPage, isLoading,
                   commentCalls, nFetch, clicks, log>>

\* await api.listComments rejects: catch, toast; finally setIsLoading(false)
ListCommentsFail(f) ==
    /\ f.pc = "list"
    /\ fetches' = fetches \ {f}
    /\ isLoading' = FALSE
    /\ log' = [log EXCEPT !.listFailed = TRUE]
    /\ UNCHANGED <<fixedVars, elsewhere, srvVars, watchVars, comments, currentPage, hasMore,
                   commentCalls, nFetch, clicks>>

\* one api.getReaction of the enrichment resolves, or rejects and leaves 'none'
EnrichComment(f) ==
    /\ f.pc = "enrich"
    /\ f.todo # <<>>
    /\ \E ur \in {SrvReaction(f.data[Head(f.todo)].id), "none"} :
          fetches' = (fetches \ {f}) \cup
             {[f EXCEPT !.data[Head(f.todo)].userReaction = ur, !.todo = Tail(@)]}
    /\ UNCHANGED <<fixedVars, elsewhere, srvVars, watchVars, comments, currentPage, hasMore, isLoading,
                   commentCalls, nFetch, clicks, log>>

\* Promise.all resolves: setComments; finally setIsLoading(false)
CommitComments(f) ==
    /\ f.pc = "enrich"
    /\ f.todo = <<>>
    /\ comments' = IF f.isInitial THEN f.data ELSE comments \o f.data
    /\ isLoading' = FALSE
    /\ fetches' = fetches \ {f}
    /\ log' = [log EXCEPT !.chain = NoToggle]
    /\ UNCHANGED <<fixedVars, elsewhere, srvVars, watchVars, currentPage, hasMore, commentCalls,
                   nFetch, clicks>>

\* handleLoadMore; the button is rendered when hasMore && !isLoading
handleLoadMore ==
    /\ hasMore
    /\ ~isLoading
    /\ currentPage' = currentPage + 1
    /\ fetchComments(currentPage + 1, FALSE, isLoading)
    /\ UNCHANGED <<fixedVars, elsewhere, srvVars, watchVars, comments, hasMore, commentCalls, clicks, log>>

\* ------------------------------------------------------- specifications
InitAuth ==
    /\ token \in BOOLEAN
    /\ channel \in BOOLEAN
    /\ channel => token

\* WatchPage once loadVideoData has run
InitWatch ==
    /\ video = SrvVideo
    /\ userReaction = IF isAuthenticated /\ channel /\ token THEN srvVideoReaction ELSE "none"
    /\ reactionCalls = {}

\* CommentSection once mounted: the effect on [videoId] has called fetchComments(0, true)
InitSection ==
    /\ comments = <<>>
    /\ currentPage = 0
    /\ hasMore = TRUE
    /\ isLoading = TRUE
    /\ commentCalls = {}
    /\ fetches = {[n |-> 1, page |-> 0, isInitial |-> TRUE, pc |-> "list",
                   data |-> <<>>, todo |-> <<>>]}
    /\ nFetch = 1

\* ------------------------------------------------------------ SearchPage
Queries == {1, 2}

NumResults(q) == IF q = 1 THEN ManyResults ELSE FewResults

\* searchVideos(query, page, LIMIT): the page of the result list
SearchVideosPage(q, page) ==
    [i \in 1..Min(LIMIT, IF NumResults(q) > page * LIMIT
                         THEN NumResults(q) - page * LIMIT ELSE 0)
        |-> [q |-> q, k |-> page * LIMIT + i]]

\* the state of the watch page and of the other pages, which a step of the search
\* page leaves alone
watchPage == <<fixedVars, srvVars, watchVars, sectionVars, clicks, log, otherPages>>

\* load() of the fetch-videos effect up to its first await, with the query and the
\* vPage of the render that ran the effect: the calls `issued` are started
StartLoads(issued) ==
    /\ nLoads + Len(issued) <= MaxLoads
    /\ nLoads' = nLoads + Len(issued)
    /\ vLoads' = vLoads \cup {[n |-> nLoads + i, query |-> issued[i].query,
                               vPage |-> issued[i].vPage, pc |-> "search",
                               results |-> <<>>] : i \in 1..Len(issued)}
    /\ vLoading' = IF issued = <<>> THEN vLoading ELSE TRUE
    /\ UNCHANGED <<cLoads, cLoading>>

\* searchChannels(query, page, LIMIT): the page of the result list
SearchChannelsPage(q, page) ==
    [i \in 1..Min(LIMIT, IF NumResults(q) > page * LIMIT
                         THEN NumResults(q) - page * LIMIT ELSE 0)
        |-> [q |-> q, k |-> page * LIMIT + i]]

\* load() of the fetch-channels effect up to its await
StartChannelLoads(issued) ==
    /\ nLoads + Len(issued) <= MaxLoads
    /\ nLoads' = nLoads + Len(issued)
    /\ cLoads' = cLoads \cup {[n |-> nLoads + i, query |-> issued[i].query,
                               cPage |-> issued[i].cPage] : i \in 1..Len(issued)}
    /\ cLoading' = IF issued = <<>> THEN cLoading ELSE TRUE
    /\ UNCHANGED <<vLoads, vLoading>>

\* the guard of the fetch-videos effect (the videos tab is the active one), with the
\* values of the render that runs it
EffectLoads(q, page, shown) == q # 0 /\ ~(page = 0 /\ Len(shown) > 0)

\* the route's q changes: the reset effect and the fetch-videos effect run with the
\* values of that render; the reset makes a second render, and the fetch-videos
\* effect runs again when vPage has changed
ChangeQuery(q) ==
    /\ q # query
    /\ nQueries < MaxQueryChanges
    /\ nQueries' = nQueries + 1
    /\ query' = q
    /\ videos' = <<>>
    /\ vPage' = 0
    /\ vHasMore' = TRUE
    /\ channels' = <<>>
    /\ cPage' = 0
    /\ cHasMore' = TRUE
    /\ IF activeTab = "videos"
       THEN StartLoads((IF EffectLoads(q, vPage, videos)
                        THEN <<[query |-> q, vPage |-> vPage]>> ELSE <<>>)
                       \o (IF vPage # 0 /\ EffectLoads(q, 0, <<>>)
                           THEN <<[query |-> q, vPage |-> 0]>> ELSE <<>>))
       ELSE StartChannelLoads((IF EffectLoads(q, cPage, channels)
                               THEN <<[query |-> q, cPage |-> cPage]>> ELSE <<>>)
                              \o (IF cPage # 0 /\ EffectLoads(q, 0, <<>>)
                                  THEN <<[query |-> q, cPage |-> 0]>> ELSE <<>>))
    /\ UNCHANGED <<watchPage, activeTab, nTabs>>

\* handleTabChange: setActiveTab; the fetch effect of the tab now active runs with
\* the page and the list that tab was left with
handleTabChange(tab) ==
    /\ tab # activeTab
    /\ nTabs < MaxTabSwitches
    /\ nTabs' = nTabs + 1
    /\ activeTab' = tab
    /\ IF tab = "videos"
       THEN StartLoads(IF EffectLoads(query, vPage, videos)
                       THEN <<[query |-> query, vPage |-> vPage]>> ELSE <<>>)
       ELSE StartChannelLoads(IF EffectLoads(query, cPage, channels)
                              THEN <<[query |-> query, cPage |-> cPage]>> ELSE <<>>)
    /\ UNCHANGED <<watchPage, query, videos, vPage, vHasMore, nQueries, channels, cPage,
                   cHasMore>>

\* the observer of the last channel fires: setCPage(p => p + 1), and the
\* fetch-channels effect runs for the new cPage
ScrollChannels ==
    /\ activeTab = "channels"
    /\ cPage < MaxLoads
    /\ Len(channels) > 0
    /\ ~cLoading
    /\ cHasMore
    /\ cPage' = cPage + 1
    /\ StartChannelLoads(IF EffectLoads(query, cPage + 1, channels)
                         THEN <<[query |-> query, cPage |-> cPage + 1]>> ELSE <<>>)
    /\ UNCHANGED <<watchPage, query, videos, vPage, vHasMore, nQueries, activeTab, nTabs,
                   channels, cHasMore>>

\* await api.searchChannels resolves: setCHasMore, setChannels; finally
\* setCLoading(false)
SearchChannelsOk(l) ==
    /\ LET results == SearchChannelsPage(l.query, l.cPage * LIMIT)
       IN /\ cHasMore' = IF Len(results) < LIMIT THEN FALSE ELSE cHasMore
          /\ channels' = IF l.cPage = 0 THEN results ELSE channels \o results
    /\ cLoading' = FALSE
    /\ cLoads' = cLoads \ {l}
    /\ UNCHANGED <<watchPage, query, videos, vPage, vHasMore, vLoading, vLoads, nLoads,
                   nQueries, activeTab, nTabs, cPage>>

\* await api.searchChannels rejects: finally setCLoading(false)
SearchChannelsFail(l) ==
    /\ cLoading' = FALSE
    /\ cLoads' = cLoads \ {l}
    /\ UNCHANGED <<watchPage, query, videos, vPage, vHasMore, vLoading, vLoads, nLoads,
                   nQueries, activeTab, nTabs, channels, cPage, cHasMore>>

\* the observer of the last video fires: setVPage(p => p + 1), and the fetch-videos
\* effect runs for the new vPage
ScrollVideos ==
    /\ activeTab = "videos"
    /\ vPage < MaxLoads
    /\ Len(videos) > 0
    /\ ~vLoading
    /\ vHasMore
    /\ vPage' = vPage + 1
    /\ StartLoads(IF EffectLoads(query, vPage + 1, videos)
                  THEN <<[query |-> query, vPage |-> vPage + 1]>> ELSE <<>>)
    /\ UNCHANGED <<watchPage, query, videos, vHasMore, nQueries, activeTab, nTabs, channels,
                   cPage, cHasMore>>

\* await api.searchVideos resolves
SearchVideosOk(l) ==
    /\ l.pc = "search"
    /\ LET results == SearchVideosPage(l.query, l.vPage * LIMIT)
       IN /\ vHasMore' = IF Len(results) < LIMIT THEN FALSE ELSE vHasMore
          /\ IF Len(results) = 0
             THEN /\ vLoading' = FALSE
                  /\ vLoads' = vLoads \ {l}
             ELSE /\ vLoads' = (vLoads \ {l}) \cup
                        {[l EXCEPT !.pc = "enrich", !.results = results]}
                  /\ UNCHANGED vLoading
    /\ UNCHANGED <<watchPage, query, videos, vPage, nLoads, nQueries, activeTab, nTabs,
                   channelFeed>>

\* await api.searchVideos rejects: finally setVLoading(false)
SearchVideosFail(l) ==
    /\ l.pc = "search"
    /\ vLoads' = vLoads \ {l}
    /\ vLoading' = FALSE
    /\ UNCHANGED <<watchPage, query, videos, vPage, vHasMore, nLoads, nQueries, activeTab,
                   nTabs, channelFeed>>

\* what a load writes into videos once its results are enriched
StoreVideos(l, valid) == IF l.vPage = 0 THEN valid ELSE videos \o valid

\* Promise.all of the enrichment resolves (a video whose detail fails is left out):
\* setVideos; finally setVLoading(false)
EnrichVideosDone(l) ==
    /\ l.pc = "enrich"
    /\ \E valid \in {l.results, Tail(l.results)} :
          videos' = StoreVideos(l, valid)
    /\ vLoading' = FALSE
    /\ vLoads' = vLoads \ {l}
    /\ UNCHANGED <<watchPage, query, vPage, vHasMore, nLoads, nQueries, activeTab, nTabs,
                   channelFeed>>

\* ----------------------------------------------------- SubscriptionsPage
\* what a step of the subscriptions page leaves alone
notSubs == <<fixedVars, srvVars, watchVars, sectionVars, clicks, log, searchVars, navVars,
            progVars, channelPageVars>>

\* the subscription lists of the runs: the three channels of the ordering example, two
\* channels with equal upload times, and NumSources channels of PerSource videos each
\* whose upload times interleave
SourceConfigs ==
    { << <<10, 5, 1>>, <<9, 4>>, <<8>> >>,
      << <<5, 3>>, <<5, 3, 3>> >>,
      [c \in 1..NumSources |->
          [k \in 1..PerSource |-> (PerSource - k) * NumSources + (NumSources - c) + 1]] }

\* getChannelVideos(sub.channel_id, 0, 100, token), as fetchData maps it
ChannelVideos(c) ==
    [k \in 1..Len(srvSources[c]) |-> [channel |-> c, k |-> k, upload_time |-> srvSources[c][k]]]

\* results.flat(): the lists of the channels in `ok`, in the order of the subscriptions
RECURSIVE Flat(_, _)
Flat(n, ok) ==
    IF n = 0 THEN <<>>
    ELSE Flat(n - 1, ok) \o (IF n \in ok THEN ChannelVideos(n) ELSE <<>>)

\* one step of the stable sort by dateB - dateA: x goes behind every video that is
\* not older than it
InsertByTime(sorted, x) ==
    LET before == {i \in 1..Len(sorted) : sorted[i].upload_time >= x.upload_time}
        n == IF before = {} THEN 0 ELSE CHOOSE i \in before : \A j \in before : j <= i
    IN SubSeq(sorted, 1, n) \o <<x>> \o SubSeq(sorted, n + 1, Len(sorted))

\* .sort((a, b) => dateB - dateA)
RECURSIVE SortByTimeDesc(_)
Unsorted(list) == list

SortByTimeDesc(list) ==
    IF list = <<>> THEN <<>>
    ELSE InsertByTime(SortByTimeDesc(SubSeq(list, 1, Len(list) - 1)), list[Len(list)])

\* allChannelVideos.slice(page * PAGE_SIZE, page * PAGE_SIZE + PAGE_SIZE)
Window(all, page) ==
    SubSeq(all, page * SUBS_PAGE_SIZE + 1, Min(Len(all), (page + 1) * SUBS_PAGE_SIZE))

\* the load-more effect on [page, allChannelVideos], run with the merged list `all`,
\* the page `page`, and the videos and hasMore the render holds
LoadMoreEffect(all, page, shown, more) ==
    IF page = 0
    THEN [videos |-> shown, hasMore |-> more]
    ELSE [videos |-> shown \o Window(all, page),
          hasMore |-> IF (page + 1) * SUBS_PAGE_SIZE >= Len(all) THEN FALSE ELSE more]

\* await api.listSubscriptions resolves: setSubscriptions, the channels' videos are asked for
ListSubscriptionsOk(l) ==
    /\ l.pc = "subs"
    /\ subscriptions' = Len(srvSources)
    /\ subLoads' = (subLoads \ {l}) \cup {[l EXCEPT !.pc = "videos"]}
    /\ UNCHANGED <<notSubs, srvSources, allChannelVideos, subVideos, subPage, subHasMore,
                   subLoading, subFetched, nRefetch>>

\* await api.listSubscriptions rejects: catch, toast; finally setLoading(false)
ListSubscriptionsFail(l) ==
    /\ l.pc = "subs"
    /\ subLoads' = subLoads \ {l}
    /\ subLoading' = FALSE
    /\ UNCHANGED <<notSubs, srvSources, subscriptions, allChannelVideos, subVideos, subPage,
                   subHasMore, subFetched, nRefetch>>

\* Promise.all of the getChannelVideos calls resolves (a channel whose call rejects
\* gives []): sort, setAllChannelVideos, setVideos, setHasMore; finally
\* setLoading(false); the load-more effect then runs for the new allChannelVideos
ChannelVideosDone(l, ok) ==
    /\ l.pc = "videos"
    /\ LET interleavedVideos == SortByTimeDesc(Flat(Len(srvSources), ok))
           after == LoadMoreEffect(interleavedVideos, subPage,
                                   Window(interleavedVideos, 0),
                                   Len(interleavedVideos) > SUBS_PAGE_SIZE)
       IN /\ allChannelVideos' = interleavedVideos
          /\ subVideos' = after.videos
          /\ subHasMore' = after.hasMore
    /\ subFetched' = ok
    /\ subLoading' = FALSE
    /\ subLoads' = subLoads \ {l}
    /\ UNCHANGED <<notSubs, srvSources, subscriptions, subPage, nRefetch>>

\* the observer of the last video fires: setPage(p => p + 1), and the load-more
\* effect runs for the new page (the feed is rendered when loading is false)
ScrollSubs ==
    /\ ~subLoading
    /\ Len(subVideos) > 0
    /\ subHasMore
    /\ subPage' = subPage + 1
    /\ LET after == LoadMoreEffect(allChannelVideos, subPage + 1, subVideos, subHasMore)
       IN /\ subVideos' = after.videos
          /\ subHasMore' = after.hasMore
    /\ UNCHANGED <<notSubs, srvSources, subscriptions, allChannelVideos, subLoading, subLoads,
                   subFetched, nRefetch>>

\* the token changes while the page is shown (a login started on the settings page
\* resolves): the effect on [isAuthenticated, channel?.channel_id, token] calls
\* fetchData again
RefetchSubs ==
    /\ nRefetch < MaxRefetch
    /\ nRefetch' = nRefetch + 1
    /\ subLoading' = TRUE
    /\ subLoads' = subLoads \cup {[n |-> nRefetch + 2, pc |-> "subs"]}
    /\ UNCHANGED <<notSubs, srvSources, subscriptions, allChannelVideos, subVideos, subPage,
                   subHasMore, subFetched>>

\* the subscriptions page is not the page shown
SubsUnmounted ==
    /\ srvSources = <<>>
    /\ subscriptions = 0
    /\ allChannelVideos = <<>>
    /\ subVideos = <<>>
    /\ subPage = 0
    /\ subHasMore = TRUE
    /\ subLoading = TRUE
    /\ subLoads = {}
    /\ subFetched = {}
    /\ nRefetch = 0

\* ------------------------------------------------- WatchPage: loadVideoData
\* what a step of loadVideoData leaves alone
notNav == <<fixedVars, srvVars, watchVars, sectionVars, clicks, log, searchVars, subsVars,
           channelPageVars>>

\* the videos the viewer navigates between
Subjects == {1, 2}

\* the positions of the played video, in 1/PerSecond seconds
Positions == 0 .. (MaxPosition * PerSecond)

\* the positions the slider can be moved to: whole seconds
SeekTargets == {p * PerSecond : p \in 0..MaxPosition}

\* Math.floor of a position, in seconds
Floor(t) == t \div PerSecond

Abs(x) == IF x < 0 THEN -x ELSE x

ThrottledInclusive(t, last) == Abs(t - last) >= THROTTLE_SECONDS * PerSecond

\* the test of onTime: Math.abs(currentTime - lastReportedTime.current) > 5
Throttled(t, last) == Abs(t - last) > THROTTLE_SECONDS * PerSecond

ProgressWriteAlways(t, by, route) ==
    Append(progressWrites, [seconds |-> Floor(t), by |-> by, video |-> route])

\* handleProgressUpdate(seconds) of the render with videoId = route, called by `by`:
\* the requests issued afterwards
ProgressWrite(t, by, route) ==
    IF isAuthenticated /\ channel /\ token /\ route # 0
    THEN Append(progressWrites, [seconds |-> Floor(t), by |-> by, video |-> route])
    ELSE progressWrites

\* handleProgressUpdate of the latest render
handleProgressUpdate(t, by) == ProgressWrite(t, by, videoId)

\* the page renders the player: not the skeleton, and a video is held
PlayerShown(loading, vid) == ~loading /\ vid # 0

\* a render of the watch page with isLoading = loading, video = vid and
\* videoId = route: the body calls handleProgressUpdate(0) when the player is
\* rendered; a player that is mounted, or whose video changes, starts at 0 with
\* lastReportedTime 0
RenderPage(loading, vid, route) ==
    /\ progressWrites' = IF PlayerShown(loading, vid)
                         THEN ProgressWrite(0, "render", route)
                         ELSE progressWrites
    /\ IF /\ PlayerShown(loading, vid)
          /\ PlayerShown(pageLoading, subjectOf.video)
          /\ vid = subjectOf.video
       THEN UNCHANGED <<currentTime, lastReportedTime, script>>
       ELSE /\ currentTime' = 0
            /\ lastReportedTime' = 0
            /\ script' = -1
    /\ UNCHANGED <<nSeeks, nRenders, progBudget>>

NothingShown ==
    [video |-> 0, channelData |-> 0, isSubscribed |-> 0, userReaction |-> 0,
     relatedVideos |-> 0]

\* loadVideoData up to its first await, for the videoId of the render that made it
StartLoad(n, v) == [n |-> n, videoId |-> v, pc |-> "video"]

\* the route's videoId changes: the page renders with the new videoId and the state
\* it holds, then loadVideoData, made anew, is called by the effect on
\* [loadVideoData] and its setIsLoading(true) replaces the player by the skeleton;
\* the call of the previous video is left running
Navigate(v) ==
    /\ videoId # 0
    /\ v # videoId
    /\ nNav < progBudget.navs
    /\ nNav' = nNav + 1
    /\ videoId' = v
    /\ pageLoading' = TRUE
    /\ pageLoads' = pageLoads \cup {StartLoad(nNav + 2, v)}
    /\ progressWrites' = IF PlayerShown(pageLoading, subjectOf.video)
                         THEN ProgressWrite(0, "render", v)
                         ELSE progressWrites
    /\ currentTime' = 0
    /\ lastReportedTime' = 0
    /\ script' = -1
    /\ UNCHANGED <<notNav, subjectOf, loadFailed, nSeeks, nRenders, progBudget>>

\* what a step of loadVideoData does with its result: setVideo, setChannelData, ...
Apply(l, cell) == [subjectOf EXCEPT ![cell] = l.videoId]

\* await api.getVideoDetail resolves: setVideo(videoData)
LoadVideoOk(l) ==
    /\ l.pc = "video"
    /\ subjectOf' = Apply(l, "video")
    /\ pageLoads' = (pageLoads \ {l}) \cup {[l EXCEPT !.pc = "channel"]}
    /\ RenderPage(pageLoading, subjectOf'.video, videoId)
    /\ UNCHANGED <<notNav, videoId, pageLoading, loadFailed, nNav>>

\* await api.getChannelDetail resolves: setChannelData(channelInfo)
LoadChannelOk(l) ==
    /\ l.pc = "channel"
    /\ subjectOf' = Apply(l, "channelData")
    /\ pageLoads' = (pageLoads \ {l}) \cup
          {[l EXCEPT !.pc = IF isAuthenticated /\ channel /\ token THEN "status" ELSE "related"]}
    /\ RenderPage(pageLoading, subjectOf'.video, videoId)
    /\ UNCHANGED <<notNav, videoId, pageLoading, loadFailed, nNav>>

\* await api.checkSubscriptionStatus resolves: setIsSubscribed
LoadStatusOk(l) ==
    /\ l.pc = "status"
    /\ subjectOf' = Apply(l, "isSubscribed")
    /\ pageLoads' = (pageLoads \ {l}) \cup {[l EXCEPT !.pc = "reaction"]}
    /\ RenderPage(pageLoading, subjectOf'.video, videoId)
    /\ UNCHANGED <<notNav, videoId, pageLoading, loadFailed, nNav>>

\* await api.getReaction resolves: setUserReaction
LoadReactionOk(l) ==
    /\ l.pc = "reaction"
    /\ subjectOf' = Apply(l, "userReaction")
    /\ pageLoads' = (pageLoads \ {l}) \cup {[l EXCEPT !.pc = "related"]}
    /\ RenderPage(pageLoading, subjectOf'.video, videoId)
    /\ UNCHANGED <<notNav, videoId, pageLoading, loadFailed, nNav>>

\* getAccessibleVideos and the details of the related videos resolve:
\* setRelatedVideos; finally setIsLoading(false)
LoadRelatedOk(l) ==
    /\ l.pc = "related"
    /\ subjectOf' = Apply(l, "relatedVideos")
    /\ pageLoading' = FALSE
    /\ pageLoads' = pageLoads \ {l}
    /\ RenderPage(FALSE, subjectOf.video, videoId)
    /\ UNCHANGED <<notNav, videoId, loadFailed, nNav>>

\* one of the awaits of loadVideoData rejects: catch, toast; finally setIsLoading(false)
LoadFail(l) ==
    /\ pageLoads' = pageLoads \ {l}
    /\ pageLoading' = FALSE
    /\ loadFailed' = TRUE
    /\ RenderPage(FALSE, subjectOf.video, videoId)
    /\ UNCHANGED <<notNav, videoId, subjectOf, nNav>>

\* the viewer leaves the watch page: the component unmounts, the player with its
\* listeners is removed, and what loads in flight set afterwards is never rendered
Leave ==
    /\ videoId # 0
    /\ videoId' = 0
    /\ subjectOf' = NothingShown
    /\ pageLoading' = FALSE
    /\ pageLoads' = {}
    /\ currentTime' = 0
    /\ lastReportedTime' = 0
    /\ script' = -1
    /\ UNCHANGED <<notNav, loadFailed, nNav, progressWrites, nSeeks, nRenders, progBudget>>

\* the loading of the watch page is not followed
NavUnmounted ==
    /\ videoId = 0
    /\ subjectOf = NothingShown
    /\ pageLoading = FALSE
    /\ pageLoads = {}
    /\ loadFailed = FALSE
    /\ nNav = 0

\* ------------------------------------- VideoPlayer / WatchPage: watch progress
\* what a step of the progress reporting leaves alone
notProg == <<fixedVars, srvVars, watchVars, sectionVars, clicks, log, searchVars, subsVars,
            navVars, channelPageVars>>

\* the ticks of the example, in seconds
Scenario == <<1, 3, 4, 7, 12>>

FollowScenario(t) ==
    IF script >= 0 /\ script < Len(Scenario) /\ t = Scenario[script + 1] * PerSecond
    THEN script + 1
    ELSE -1

\* a timeupdate event of the playing video at position t
onTime(t) ==
    /\ PlayerShown(pageLoading, subjectOf.video)
    /\ t > currentTime
    /\ t <= progBudget.ticksTo
    /\ currentTime' = t
    /\ script' = FollowScenario(t)
    /\ IF Throttled(t, lastReportedTime)
       THEN /\ progressWrites' = handleProgressUpdate(t, "tick")
            /\ lastReportedTime' = t
       ELSE UNCHANGED <<progressWrites, lastReportedTime>>
    /\ UNCHANGED <<notProg, nSeeks, nRenders, progBudget>>

handleSeekThrottled(t) ==
    /\ PlayerShown(pageLoading, subjectOf.video)
    /\ nSeeks < progBudget.seeks
    /\ nSeeks' = nSeeks + 1
    /\ currentTime' = t
    /\ script' = -1
    /\ IF Throttled(t, lastReportedTime)
       THEN /\ progressWrites' = handleProgressUpdate(t, "seek")
            /\ lastReportedTime' = t
       ELSE UNCHANGED <<progressWrites, lastReportedTime>>
    /\ UNCHANGED <<notProg, nRenders, progBudget>>

\* the viewer moves the slider to position t
handleSeek(t) ==
    /\ PlayerShown(pageLoading, subjectOf.video)
    /\ nSeeks < progBudget.seeks
    /\ nSeeks' = nSeeks + 1
    /\ currentTime' = t
    /\ script' = -1
    /\ progressWrites' = handleProgressUpdate(t, "seek")
    /\ lastReportedTime' = t
    /\ UNCHANGED <<notProg, nRenders, progBudget>>

\* the viewer clicks play on the video that has played to its end: the element is
\* paused there, so togglePlay calls v.play(), and playback starts again from 0
togglePlay ==
    /\ PlayerShown(pageLoading, subjectOf.video)
    /\ progBudget.replays > 0
    /\ currentTime = MaxPosition * PerSecond
    /\ currentTime' = 0
    /\ script' = -1
    /\ progBudget' = [progBudget EXCEPT !.replays = @ - 1]
    /\ UNCHANGED <<notProg, lastReportedTime, progressWrites, nSeeks, nRenders>>

\* what the settling of an updateWatchHistory request leaves alone
notHistory == <<fixedVars, srvVars, watchVars, sectionVars, clicks, searchVars, subsVars,
               navVars, progVars, channelPageVars>>

\* the updateWatchHistory requests not yet settled
HistoryPending ==
    (1..Len(progressWrites)) \ (log.historyOk \cup log.historyFailed)

HistoryFailRetry(i) ==
    /\ i \in HistoryPending
    /\ log' = [log EXCEPT !.historyFailed = @ \cup {i}]
    /\ progressWrites' = Append(progressWrites, progressWrites[i])
    /\ UNCHANGED <<fixedVars, srvVars, watchVars, sectionVars, clicks, searchVars, subsVars,
                   navVars, currentTime, lastReportedTime, script, nSeeks, nRenders,
                   progBudget, channelPageVars>>

\* await api.updateWatchHistory rejects: catch, console.error
HistoryFail(i) ==
    /\ i \in HistoryPending
    /\ log' = [log EXCEPT !.historyFailed = @ \cup {i}]
    /\ UNCHANGED notHistory

\* await api.updateWatchHistory resolves: handleProgressUpdate returns
HistoryOk(i) ==
    /\ i \in HistoryPending
    /\ log' = [log EXCEPT !.historyOk = @ \cup {i}]
    /\ UNCHANGED notHistory

\* a state update of the watch page (a reaction, a subscription, the save modal)
\* renders it again: the body of the component calls handleProgressUpdate(0)
Rerender ==
    /\ PlayerShown(pageLoading, subjectOf.video)
    /\ nRenders < progBudget.renders
    /\ nRenders' = nRenders + 1
    /\ progressWrites' = handleProgressUpdate(0, "render")
    /\ UNCHANGED <<notProg, currentTime, lastReportedTime, script, nSeeks, progBudget>>

\* the watch progress is not followed
ProgressUnmounted ==
    /\ currentTime = 0
    /\ lastReportedTime = 0
    /\ progressWrites = <<>>
    /\ script = 0
    /\ nSeeks = 0
    /\ nRenders = 0
    /\ progBudget = [seeks |-> 0, renders |-> 0, ticksTo |-> 0, navs |-> 0, replays |-> 0]

\* --------------------------------------------------------------- channel page
\* the count a subscribe or unsubscribe that came back adds to the displayed one
CountStep(kind) == IF kind = "subscribe" THEN 1 ELSE 0 - 1

\* the subscribe button: without a signed-in channel the handler only raises a toast;
\* otherwise it picks the call from the isSubscribed of the render it was created in
\* and waits for it; nothing keeps a second click from starting a second call
handleSubscribe ==
    /\ nSubscribe < MaxSubscribeClicks
    /\ nSubscribe' = nSubscribe + 1
    /\ subscribeCalls' =
           IF ~channel \/ ~token
           THEN subscribeCalls
           ELSE subscribeCalls \cup
                {[n |-> nSubscribe + 1,
                  kind |-> IF isSubscribed THEN "unsubscribe" ELSE "subscribe"]}
    /\ UNCHANGED <<fixedVars, srvVars, watchVars, sectionVars, clicks, log, searchVars,
                   subsVars, navVars, progVars, isSubscribed, channelData, loadedChannel,
                   srvSubscribed>>

\* api.subscribe or api.unsubscribe resolved: the service holds the new subscription,
\* setIsSubscribed takes the value of the branch and the functional update of
\* channelData moves subscriber_count by one from whatever it is now
SubscriptionOk(r) ==
    /\ r \in subscribeCalls
    /\ subscribeCalls' = subscribeCalls \ {r}
    /\ srvSubscribed' = (r.kind = "subscribe")
    /\ isSubscribed' = (r.kind = "subscribe")
    /\ channelData' = [channelData EXCEPT !.subscriber_count = @ + CountStep(r.kind)]
    /\ UNCHANGED <<fixedVars, srvVars, watchVars, sectionVars, clicks, log, searchVars,
                   subsVars, navVars, progVars, loadedChannel, nSubscribe>>

\* the call rejected: the catch raises a toast and the state stays
SubscriptionFail(r) ==
    /\ r \in subscribeCalls
    /\ subscribeCalls' = subscribeCalls \ {r}
    /\ UNCHANGED <<fixedVars, srvVars, watchVars, sectionVars, clicks, log, searchVars,
                   subsVars, navVars, progVars, isSubscribed, channelData, loadedChannel,
                   srvSubscribed, nSubscribe>>

\* the channel page is not the page shown
ChannelUnmounted ==
    /\ isSubscribed = FALSE
    /\ channelData = [subscriber_count |-> 0]
    /\ loadedChannel = [subscriber_count |-> 0, is_subscribed |-> FALSE]
    /\ srvSubscribed = FALSE
    /\ subscribeCalls = {}
    /\ nSubscribe = 0

\* the search page is not the page shown
SearchUnmounted ==
    /\ query = 0
    /\ videos = <<>>
    /\ vPage = 0
    /\ vHasMore = TRUE
    /\ vLoading = FALSE
    /\ vLoads = {}
    /\ nLoads = 0
    /\ nQueries = 0
    /\ activeTab = "videos"
    /\ channels = <<>>
    /\ cPage = 0
    /\ cHasMore = TRUE
    /\ cLoading = FALSE
    /\ cLoads = {}
    /\ nTabs = 0

NoOthers == [likes |-> 0, dislikes |-> 0]

InitState ==
    /\ InitAuth
    /\ srvVideoReaction \in Reactions
    /\ srvCommentReaction \in [Tracked -> Reactions]
    /\ srvOthers \in {NoOthers, [likes |-> OtherLikes, dislikes |-> OtherDislikes]}
    /\ InitWatch
    /\ InitSection
    /\ clicks = 0
    /\ log = InitLog
    /\ SearchUnmounted
    /\ SubsUnmounted
    /\ NavUnmounted
    /\ ProgressUnmounted
    /\ ChannelUnmounted

WatchNext ==
    \/ \E type \in Kinds : handleReaction(type)
    \/ \E r \in reactionCalls : ServeVideoReaction(r)
    \/ \E r \in reactionCalls : VideoReactionOk(r)
    \/ \E r \in reactionCalls : VideoReactionFail(r)
    \/ \E r \in reactionCalls : ServeVideoDetail(r)
    \/ \E r \in reactionCalls : VideoDetailOk(r)
    \/ \E r \in reactionCalls : VideoDetailFail(r)

SectionNext ==
    \/ \E c \in Tracked, type \in Kinds : handleCommentReaction(c, type)
    \/ \E r \in commentCalls : ServeCommentReaction(r)
    \/ \E r \in commentCalls : CommentReactionOk(r)
    \/ \E r \in commentCalls : CommentReactionFail(r)
    \/ \E f \in fetches : ListCommentsOk(f)
    \/ \E f \in fetches : ListCommentsFail(f)
    \/ \E f \in fetches : EnrichComment(f)
    \/ \E f \in fetches : CommitComments(f)
    \/ handleLoadMore

\* the clicks of a run go to the video: the comments keep the state the service gave them
VideoFocus(n) ==
    /\ \A c \in Tracked : srvCommentReaction[c] = "none"
    /\ srvOthers = NoOthers
    /\ srvCount = NumComments
    /\ srvInserted = 0
    /\ budget = [video |-> n, comment |-> 0, fetches |-> 1, inserts |-> 0]

\* the clicks of a run go to the comments
CommentFocus(n, m) ==
    /\ srvVideoReaction = "none"
    /\ srvCount = NumComments
    /\ srvInserted = 0
    /\ budget = [video |-> 0, comment |-> n, fetches |-> m, inserts |-> 0]

\* the watch page alone: reactions on the video
InitWatchOnly == InitState /\ VideoFocus(MaxToggles)

SpecWatch == InitWatchOnly /\ [][WatchNext]_vars

\* the comment section alone: pages of comments and reactions on them
InitSectionOnly == InitState /\ CommentFocus(MaxToggles, MaxFetches)

SpecSection == InitSectionOnly /\ [][SectionNext]_vars

\* the watch page with its comment section (the two components share no state)
Init == InitState /\ (VideoFocus(PageToggles) \/ CommentFocus(PageToggles, PageFetches))

Next == WatchNext \/ SectionNext

Spec == Init /\ [][Next]_vars

\* another viewer posts a comment on the watched video
InsertComment ==
    /\ srvInserted < budget.inserts
    /\ srvInserted' = srvInserted + 1
    /\ UNCHANGED <<fixedVars, elsewhere, srvVideoReaction, srvCommentReaction, srvOthers, srvCount,
                   watchVars, sectionVars, clicks, log>>

\* the viewer pages through the comments of a video that has n of them and clicks
\* reactions on them
PagingFocus(n) ==
    /\ srvVideoReaction = "none"
    /\ srvOthers = NoOthers
    /\ srvCount = n
    /\ srvInserted = 0
    /\ budget = [video |-> 0, comment |-> PagingToggles, fetches |-> PagingFetches,
                 inserts |-> 0]

\* the comment section over lists of several lengths: pages requested while reactions
\* are in flight
InitPaging == InitState /\ (\E n \in {0, PAGE_SIZE, ManyComments} : PagingFocus(n))

SpecPaging == InitPaging /\ [][SectionNext]_vars

\* the viewer pages through the comments of a video that has n of them and clicks no
\* reaction, while other viewers post
FeedFocus(n) ==
    /\ srvVideoReaction = "none"
    /\ srvOthers = NoOthers
    /\ srvCount = n
    /\ srvInserted = 0
    /\ budget = [video |-> 0, comment |-> 0, fetches |-> FeedFetches, inserts |-> MaxInserts]

InitFeed == InitState /\ (\E n \in {0, PAGE_SIZE, ManyComments} : FeedFocus(n))

FeedNext ==
    \/ \E f \in fetches : ListCommentsOk(f)
    \/ \E f \in fetches : ListCommentsFail(f)
    \/ \E f \in fetches : EnrichComment(f)
    \/ \E f \in fetches : CommitComments(f)
    \/ handleLoadMore
    \/ InsertComment

SpecFeed == InitFeed /\ [][FeedNext]_vars

\* the search page: mounted with some query, the effects of the first render have run
InitSearch ==
    /\ token = FALSE
    /\ channel = FALSE
    /\ srvVideoReaction = "none"
    /\ srvCommentReaction = [c \in Tracked |-> "none"]
    /\ srvOthers = NoOthers
    /\ srvCount = NumComments
    /\ srvInserted = 0
    /\ InitWatch
    /\ comments = <<>>
    /\ currentPage = 0
    /\ hasMore = TRUE
    /\ isLoading = FALSE
    /\ commentCalls = {}
    /\ fetches = {}
    /\ nFetch = 0
    /\ clicks = 0
    /\ budget = [video |-> 0, comment |-> 0, fetches |-> 0, inserts |-> 0]
    /\ log = InitLog
    /\ query \in Queries \cup {0}
    /\ videos = <<>>
    /\ vPage = 0
    /\ vHasMore = TRUE
    /\ nQueries = 0
    /\ vLoading = (query # 0)
    /\ nLoads = IF query # 0 THEN 1 ELSE 0
    /\ vLoads = IF query # 0
                THEN {[n |-> 1, query |-> query, vPage |-> 0, pc |-> "search",
                       results |-> <<>>]}
                ELSE {}
    /\ activeTab = "videos"
    /\ channels = <<>>
    /\ cPage = 0
    /\ cHasMore = TRUE
    /\ cLoading = FALSE
    /\ cLoads = {}
    /\ nTabs = 0
    /\ SubsUnmounted
    /\ NavUnmounted
    /\ ProgressUnmounted
    /\ ChannelUnmounted

SearchNext ==
    \/ \E q \in Queries \cup {0} : ChangeQuery(q)
    \/ ScrollVideos
    \/ \E l \in vLoads : SearchVideosOk(l)
    \/ \E l \in vLoads : SearchVideosFail(l)
    \/ \E l \in vLoads : EnrichVideosDone(l)

SpecSearch == InitSearch /\ [][SearchNext]_vars

\* the search page at one query, with its two tabs
InitTabs ==
    /\ token = FALSE
    /\ channel = FALSE
    /\ srvVideoReaction = "none"
    /\ srvCommentReaction = [c \in Tracked |-> "none"]
    /\ srvOthers = NoOthers
    /\ srvCount = NumComments
    /\ srvInserted = 0
    /\ InitWatch
    /\ comments = <<>>
    /\ currentPage = 0
    /\ hasMore = TRUE
    /\ isLoading = FALSE
    /\ commentCalls = {}
    /\ fetches = {}
    /\ nFetch = 0
    /\ clicks = 0
    /\ budget = [video |-> 0, comment |-> 0, fetches |-> 0, inserts |-> 0]
    /\ log = InitLog
    /\ query \in Queries
    /\ videos = <<>>
    /\ vPage = 0
    /\ vHasMore = TRUE
    /\ nQueries = 0
    /\ vLoading = TRUE
    /\ nLoads = 1
    /\ vLoads = {[n |-> 1, query |-> query, vPage |-> 0, pc |-> "search",
                  results |-> <<>>]}
    /\ activeTab = "videos"
    /\ channels = <<>>
    /\ cPage = 0
    /\ cHasMore = TRUE
    /\ cLoading = FALSE
    /\ cLoads = {}
    /\ nTabs = 0
    /\ SubsUnmounted
    /\ NavUnmounted
    /\ ProgressUnmounted
    /\ ChannelUnmounted

TabsNext ==
    \/ \E tab \in {"videos", "channels"} : handleTabChange(tab)
    \/ ScrollVideos
    \/ ScrollChannels
    \/ \E l \in vLoads : SearchVideosOk(l)
    \/ \E l \in vLoads : SearchVideosFail(l)
    \/ \E l \in vLoads : EnrichVideosDone(l)
    \/ \E l \in cLoads : SearchChannelsOk(l)
    \/ \E l \in cLoads : SearchChannelsFail(l)

SpecTabs == InitTabs /\ [][TabsNext]_vars

\* the search page when no request fails
SearchServed ==
    \/ \E q \in Queries \cup {0} : ChangeQuery(q)
    \/ ScrollVideos
    \/ \E l \in vLoads : SearchVideosOk(l)
    \/ \E l \in vLoads : EnrichVideosDone(l)

\* every request made is answered
SearchAnswered ==
    \E l \in vLoads : SearchVideosOk(l) \/ EnrichVideosDone(l)

SpecSearchLive == InitSearch /\ [][SearchServed]_vars /\ WF_vars(SearchAnswered)

\* the subscriptions page of a signed-in viewer: the effects of the first render have
\* run and fetchData is in flight
InitSubs ==
    /\ token = TRUE
    /\ channel = TRUE
    /\ srvVideoReaction = "none"
    /\ srvCommentReaction = [c \in Tracked |-> "none"]
    /\ srvOthers = NoOthers
    /\ srvCount = NumComments
    /\ srvInserted = 0
    /\ InitWatch
    /\ comments = <<>>
    /\ currentPage = 0
    /\ hasMore = TRUE
    /\ isLoading = FALSE
    /\ commentCalls = {}
    /\ fetches = {}
    /\ nFetch = 0
    /\ clicks = 0
    /\ budget = [video |-> 0, comment |-> 0, fetches |-> 0, inserts |-> 0]
    /\ log = InitLog
    /\ SearchUnmounted
    /\ srvSources \in SourceConfigs
    /\ subscriptions = 0
    /\ allChannelVideos = <<>>
    /\ subVideos = <<>>
    /\ subPage = 0
    /\ subHasMore = TRUE
    /\ subLoading = TRUE
    /\ subLoads = {[n |-> 1, pc |-> "subs"]}
    /\ subFetched = {}
    /\ nRefetch = 0
    /\ NavUnmounted
    /\ ProgressUnmounted
    /\ ChannelUnmounted

SubsNext ==
    \/ \E l \in subLoads : ListSubscriptionsOk(l)
    \/ \E l \in subLoads : ListSubscriptionsFail(l)
    \/ \E l \in subLoads : \E ok \in SUBSET (1..Len(srvSources)) : ChannelVideosDone(l, ok)
    \/ ScrollSubs
    \/ RefetchSubs

SpecSubs == InitSubs /\ [][SubsNext]_vars

\* the watch page being loaded: mounted on some video, loadVideoData in flight
InitNav ==
    /\ InitAuth
    /\ srvVideoReaction = "none"
    /\ srvCommentReaction = [c \in Tracked |-> "none"]
    /\ srvOthers = NoOthers
    /\ srvCount = NumComments
    /\ srvInserted = 0
    /\ InitWatch
    /\ comments = <<>>
    /\ currentPage = 0
    /\ hasMore = TRUE
    /\ isLoading = FALSE
    /\ commentCalls = {}
    /\ fetches = {}
    /\ nFetch = 0
    /\ clicks = 0
    /\ budget = [video |-> 0, comment |-> 0, fetches |-> 0, inserts |-> 0]
    /\ log = InitLog
    /\ SearchUnmounted
    /\ SubsUnmounted
    /\ ChannelUnmounted
    /\ videoId \in Subjects
    /\ subjectOf = NothingShown
    /\ pageLoading = TRUE
    /\ pageLoads = {StartLoad(1, videoId)}
    /\ loadFailed = FALSE
    /\ nNav = 0
    /\ currentTime = 0
    /\ lastReportedTime = 0
    /\ progressWrites = <<>>
    /\ script = 0
    /\ nSeeks = 0
    /\ nRenders = 0
    /\ progBudget = [seeks |-> 0, renders |-> 0, ticksTo |-> 0, navs |-> MaxNavigations,
                     replays |-> 0]

NavNext ==
    \/ \E v \in Subjects : Navigate(v)
    \/ \E l \in pageLoads : LoadVideoOk(l)
    \/ \E l \in pageLoads : LoadChannelOk(l)
    \/ \E l \in pageLoads : LoadStatusOk(l)
    \/ \E l \in pageLoads : LoadReactionOk(l)
    \/ \E l \in pageLoads : LoadRelatedOk(l)
    \/ \E l \in pageLoads : LoadFail(l)

SpecNav == InitNav /\ [][NavNext]_vars

\* the watch page after its first render with the loaded video: the body of the
\* component has called handleProgressUpdate(0), the player is at position 0
InitProgress ==
    /\ InitAuth
    /\ srvVideoReaction = "none"
    /\ srvCommentReaction = [c \in Tracked |-> "none"]
    /\ srvOthers = NoOthers
    /\ srvCount = NumComments
    /\ srvInserted = 0
    /\ InitWatch
    /\ comments = <<>>
    /\ currentPage = 0
    /\ hasMore = TRUE
    /\ isLoading = FALSE
    /\ commentCalls = {}
    /\ fetches = {}
    /\ nFetch = 0
    /\ clicks = 0
    /\ budget = [video |-> 0, comment |-> 0, fetches |-> 0, inserts |-> 0]
    /\ log = InitLog
    /\ SearchUnmounted
    /\ SubsUnmounted
    /\ ChannelUnmounted
    /\ videoId = 1
    /\ subjectOf = [cell \in DOMAIN NothingShown |-> videoId]
    /\ pageLoading = FALSE
    /\ pageLoads = {}
    /\ loadFailed = FALSE
    /\ nNav = 0
    /\ currentTime = 0
    /\ lastReportedTime = 0
    /\ progressWrites = IF isAuthenticated /\ channel /\ token
                        THEN <<[seconds |-> Floor(0), by |-> "render", video |-> videoId]>>
                        ELSE <<>>
    /\ script = 0
    /\ nSeeks = 0
    /\ nRenders = 0
    /\ progBudget \in {[seeks |-> 1, renders |-> 0, ticksTo |-> MaxPosition * PerSecond,
                        navs |-> 0, replays |-> 0],
                       [seeks |-> 0, renders |-> MaxRenders, ticksTo |-> MaxPosition * PerSecond,
                        navs |-> 0, replays |-> 0],
                       [seeks |-> 0, renders |-> 0, ticksTo |-> MaxPosition * PerSecond,
                        navs |-> 0, replays |-> 1]}

ProgressNext ==
    \/ \E t \in Positions : onTime(t)
    \/ \E t \in SeekTargets : handleSeek(t)
    \/ togglePlay
    \/ Rerender

SpecProgress == InitProgress /\ [][ProgressNext]_vars

\* the watch page after its first render with the loaded video, for the settling
\* of the progress writes
InitHistory ==
    /\ InitAuth
    /\ srvVideoReaction = "none"
    /\ srvCommentReaction = [c \in Tracked |-> "none"]
    /\ srvOthers = NoOthers
    /\ srvCount = NumComments
    /\ srvInserted = 0
    /\ InitWatch
    /\ comments = <<>>
    /\ currentPage = 0
    /\ hasMore = TRUE
    /\ isLoading = FALSE
    /\ commentCalls = {}
    /\ fetches = {}
    /\ nFetch = 0
    /\ clicks = 0
    /\ budget = [video |-> 0, comment |-> 0, fetches |-> 0, inserts |-> 0]
    /\ log = InitLog
    /\ SearchUnmounted
    /\ SubsUnmounted
    /\ ChannelUnmounted
    /\ videoId = 1
    /\ subjectOf = [cell \in DOMAIN NothingShown |-> videoId]
    /\ pageLoading = FALSE
    /\ pageLoads = {}
    /\ loadFailed = FALSE
    /\ nNav = 0
    /\ currentTime = 0
    /\ lastReportedTime = 0
    /\ progressWrites = IF isAuthenticated /\ channel /\ token
                        THEN <<[seconds |-> Floor(0), by |-> "render", video |-> videoId]>>
                        ELSE <<>>
    /\ script = -1
    /\ nSeeks = 0
    /\ nRenders = 0
    /\ progBudget = [seeks |-> 0, renders |-> 1,
                     ticksTo |-> (THROTTLE_SECONDS + 1) * PerSecond, navs |-> 0,
                     replays |-> 0]

HistoryNext ==
    \/ \E t \in Positions : onTime(t)
    \/ Rerender
    \/ \E i \in 1..Len(progressWrites) : HistoryOk(i)
    \/ \E i \in 1..Len(progressWrites) : HistoryFail(i)

SpecHistory == InitHistory /\ [][HistoryNext]_vars

\* the watch page shown for some video, played, navigated from and left
InitSession ==
    /\ InitAuth
    /\ srvVideoReaction = "none"
    /\ srvCommentReaction = [c \in Tracked |-> "none"]
    /\ srvOthers = NoOthers
    /\ srvCount = NumComments
    /\ srvInserted = 0
    /\ InitWatch
    /\ comments = <<>>
    /\ currentPage = 0
    /\ hasMore = TRUE
    /\ isLoading = FALSE
    /\ commentCalls = {}
    /\ fetches = {}
    /\ nFetch = 0
    /\ clicks = 0
    /\ budget = [video |-> 0, comment |-> 0, fetches |-> 0, inserts |-> 0]
    /\ log = InitLog
    /\ SearchUnmounted
    /\ SubsUnmounted
    /\ ChannelUnmounted
    /\ videoId \in Subjects
    /\ subjectOf = [cell \in DOMAIN NothingShown |-> videoId]
    /\ pageLoading = FALSE
    /\ pageLoads = {}
    /\ loadFailed = FALSE
    /\ nNav = 0
    /\ currentTime = 0
    /\ lastReportedTime = 0
    /\ progressWrites = IF isAuthenticated /\ channel /\ token
                        THEN <<[seconds |-> Floor(0), by |-> "render", video |-> videoId]>>
                        ELSE <<>>
    /\ script = -1
    /\ nSeeks = 0
    /\ nRenders = 0
    /\ progBudget = [seeks |-> 1, renders |-> 1,
                     ticksTo |-> (THROTTLE_SECONDS + 1) * PerSecond, navs |-> 1,
                     replays |-> 0]

SessionNext ==
    \/ \E t \in Positions : onTime(t)
    \/ \E t \in SeekTargets : handleSeek(t)
    \/ Rerender
    \/ NavNext
    \/ Leave

SpecSession == InitSession /\ [][SessionNext]_vars

\* ================================================================ claims

\* the comment as the service holds it for the viewer
Authoritative(c) == [SrvComment(c) EXCEPT !.userReaction = SrvReaction(c)]

\* the call a click has just issued
NewVideoCalls == {r \in reactionCalls' : r.n = clicks' /\ clicks' = clicks + 1}

NewCommentCalls == {r \in commentCalls' : r.n = clicks' /\ clicks' = clicks + 1}

\* C1: once every response of a run of toggles on the video has arrived, and none
\* failed, the displayed userReaction is the reaction the last click asked for,
\* whatever the order of the responses.
C1_LastIntentWins ==
    (reactionCalls = {} /\ ~log.failed /\ log.videoIntent # "unset")
        => userReaction = log.videoIntent

\* C2: when the setReaction of the latest toggle on a comment has failed and nothing
\* is in flight any more, the displayed comment is the one from before the toggle or
\* the one the service holds, never the optimistic one.
C2_FailureNeverLeavesOptimistic ==
    (commentCalls = {} /\ fetches = {} /\ log.failedToggle.len = 1)
        => \A i \in 1..Len(comments) :
              comments[i].id = log.failedToggle.id
                  => \/ comments[i] = log.failedToggle.before
                     \/ comments[i] = Authoritative(comments[i].id)

\* C3: while the setReaction of the latest click is unresolved, the view already
\* shows the reaction that click asked for (video and comment alike).
C3_OptimisticBeforeResolve ==
    /\ \A r \in reactionCalls :
          (r.pc \in {"sent", "applied"} /\ r.n = clicks) => userReaction = r.reaction
    /\ \A r \in commentCalls :
          (r.n = clicks /\ Displayed(r.id)) => FindComment(r.id).userReaction = r.reaction

\* C4: the reaction a click sends is none when the requested kind is the subject's
\* current reaction, and the requested kind otherwise (video and comment alike).
C4_ToggleRule ==
    [][ /\ \A r \in NewVideoCalls :
             r.reaction = IF r.type = userReaction THEN "none" ELSE r.type
        /\ \A r \in NewCommentCalls :
             r.reaction = IF r.type = FindComment(r.id).userReaction THEN "none" ELSE r.type
      ]_vars

C4_Witness ==
    /\ \E r \in commentCalls :
          r.type = "like" /\ r.currentComment.userReaction = "like" /\ r.reaction = "none"
    /\ \E r \in commentCalls :
          r.type = "dislike" /\ r.currentComment.userReaction = "none" /\ r.reaction = "dislike"

\* C5: a comment toggle lowers by one the counter of the reaction it leaves, raises
\* by one the counter of the reaction it enters, and changes no other counter and no
\* other comment; from (like, 5, 2) a dislike click gives (dislike, 4, 3).
C5_Delta(old, new) ==
    /\ new.id = old.id
    /\ new.like_count = old.like_count - Count(old.userReaction = "like")
                                         + Count(new.userReaction = "like")
    /\ new.dislike_count = old.dislike_count - Count(old.userReaction = "dislike")
                                               + Count(new.userReaction = "dislike")

C5_OptimisticDelta ==
    [][ \A r \in NewCommentCalls :
          /\ Len(comments') = Len(comments)
          /\ \A i \in 1..Len(comments) :
                IF comments[i].id = r.id
                THEN /\ comments'[i].userReaction = r.reaction
                     /\ C5_Delta(comments[i], comments'[i])
                     /\ (/\ comments[i].userReaction = "like"
                         /\ comments[i].like_count = 5
                         /\ comments[i].dislike_count = 2
                         /\ r.type = "dislike")
                            => (/\ comments'[i].userReaction = "dislike"
                                /\ comments'[i].like_count = 4
                                /\ comments'[i].dislike_count = 3)
                ELSE comments'[i] = comments[i]
      ]_vars

C5_Witness ==
    \E r \in commentCalls :
        /\ r.type = "dislike"
        /\ r.currentComment.userReaction = "like"
        /\ r.currentComment.like_count = 5
        /\ r.currentComment.dislike_count = 2
        /\ Displayed(r.id)
        /\ FindComment(r.id).userReaction = "dislike"
        /\ FindComment(r.id).like_count = 4
        /\ FindComment(r.id).dislike_count = 3

\* C6 as stated: two clicks of the same kind in a row on a comment give back the
\* comment as it was before them, whatever its reaction was.
C6_DoubleToggleRestores ==
    (log.chain.len = 2 /\ Displayed(log.chain.id))
        => FindComment(log.chain.id) = log.chain.before

\* C6 as amended: two clicks of the same kind in a row on a comment give back the
\* comment as it was when its reaction was none or the clicked kind; when it was the
\* opposite kind they leave reaction none, the opposite counter one lower and the
\* clicked kind's counter as it was.
C6_DoubleToggle ==
    (log.chain.len = 2 /\ Displayed(log.chain.id))
        => LET now == FindComment(log.chain.id)
               was == log.chain.before
               kind == log.chain.type
           IN IF was.userReaction \in {"none", kind}
              THEN now = was
              ELSE /\ now.userReaction = "none"
                   /\ now.like_count = was.like_count - Count(was.userReaction = "like")
                   /\ now.dislike_count = was.dislike_count
                                            - Count(was.userReaction = "dislike")

C6_Witness ==
    /\ log.chain.len = 2
    /\ log.chain.type = "like"
    /\ log.chain.before.userReaction = "like"
    /\ Displayed(log.chain.id)
    /\ FindComment(log.chain.id) = log.chain.before

\* C7: a click made with channel and token set issues exactly one setReaction; a
\* click made without them issues none and changes nothing; nothing else issues one.
C7_OneWritePerToggle ==
    [][ IF clicks' = clicks + 1
        THEN IF channel /\ token
             THEN /\ log'.writes = log.writes + 1
                  /\ Cardinality((reactionCalls' \ reactionCalls)
                                   \cup (commentCalls' \ commentCalls)) = 1
             ELSE /\ log'.writes = log.writes
                  /\ UNCHANGED <<srvVars, watchVars, sectionVars>>
        ELSE /\ log'.writes = log.writes
             /\ \A r \in reactionCalls' \ reactionCalls : r.pc # "sent"
             /\ \A r \in commentCalls' \ commentCalls : r.pc # "sent"
      ]_vars

C7_Witness ==
    /\ channel /\ token
    /\ clicks = 2
    /\ log.writes = 2
    /\ Cardinality(commentCalls) = 2

\* C8: no displayed like or dislike counter is ever negative.
C8_CountsNonNegative ==
    /\ video.like_count >= 0
    /\ video.dislike_count >= 0
    /\ \A i \in 1..Len(comments) :
          comments[i].like_count >= 0 /\ comments[i].dislike_count >= 0

\* C9: when the page request of a load-more fails, the items and the exhausted flag
\* are as before and the next load-more (which asks for currentPage + 1) asks for the
\* page that failed.
C9_FailedFetchKeepsCursor ==
    [][ \A f \in fetches :
          (f.pc = "list" /\ ~f.isInitial /\ fetches' = fetches \ {f})
              => /\ comments' = comments
                 /\ hasMore' = hasMore
                 /\ currentPage' + 1 = f.page
      ]_vars

\* C10: a result that arrives for a query the page has left is never written into
\* the list of the current query: every video shown was found for the current query.
C10_StaleResultDiscarded ==
    \A i \in 1..Len(videos) : videos[i].q = query

\* C11: the comments shown hold each comment at most once, also when other viewers
\* post between two page requests so that consecutive pages overlap.
C11_NoDuplicateItems ==
    \A i, j \in 1..Len(comments) : comments[i].id = comments[j].id => i = j

\* C12: a load-more issued while a fetchComments request is outstanding does nothing:
\* while a request is outstanding no step advances currentPage and no step issues a
\* request for a further page.
C12_ReentrantLoadIsNoOp ==
    [][ fetches # {} =>
          /\ currentPage' = currentPage
          /\ \A f \in fetches' : f.n > nFetch => f.isInitial
      ]_vars

\* C13: when listComments answers, hasMore is set to false if and only if the answer
\* holds fewer than PAGE_SIZE comments (none included); a full page leaves hasMore
\* as it was.
C13_ExhaustedIffShortPage ==
    [][ \A f \in fetches, g \in fetches' :
          (f.n = g.n /\ f.pc = "list" /\ g.pc = "enrich")
              => hasMore' = IF Len(g.data) < PAGE_SIZE THEN FALSE ELSE hasMore
      ]_vars

C13_Witness ==
    /\ ~hasMore
    /\ \E g \in fetches : g.pc = "enrich" /\ g.page > 0 /\ Len(g.data) = 0
    /\ Len(comments) = PAGE_SIZE

\* the ids of the comments shown
ShownIds == [i \in 1..Len(comments) |-> comments[i].id]

\* C14: over a list that does not change and with no failed request, the pages are
\* asked for in order, none skipped and none twice; the comments shown are the first
\* pages of the list; hasMore is false from the first short page on and no page is
\* asked for after it. With 25 comments the pages hold 10, 10 and 5 comments, hasMore
\* is false after the third and there is no fourth request.
C14_PagesInOrder ==
    (~log.listFailed /\ ~log.failed /\ srvInserted = 0 /\ clicks = 0) =>
        /\ \A f \in fetches : f.page = currentPage /\ f.n = currentPage + 1
        /\ nFetch = currentPage + 1
        /\ currentPage * PAGE_SIZE <= srvCount
        /\ LET done == IF fetches = {} THEN currentPage + 1 ELSE currentPage
           IN /\ ShownIds = [i \in 1..Min(srvCount, done * PAGE_SIZE) |-> i]
              /\ fetches = {} => (hasMore <=> srvCount >= done * PAGE_SIZE)
        /\ srvCount = 25 =>
              /\ currentPage <= 2
              /\ Len(comments) \in {0, 10, 20, 25}
              /\ (currentPage = 2 /\ fetches = {}) => (Len(comments) = 25 /\ ~hasMore)

C14_Witness ==
    /\ ~log.listFailed /\ srvInserted = 0
    /\ srvCount = 25
    /\ nFetch = 3
    /\ fetches = {}
    /\ Len(comments) = 25
    /\ ~hasMore
    /\ ~ENABLED handleLoadMore

IsPrefix(a, b) == Len(a) <= Len(b) /\ SubSeq(b, 1, Len(a)) = a

\* C16: the subscription feed shown holds no video twice, and whenever the merged
\* list is the one already held (or the first one to arrive) the feed shown after a
\* step is the feed shown before it with videos appended, also when the data is
\* fetched again with page beyond 0.
C16_AppendOnlyFeed ==
    [][ /\ \A i, j \in 1..Len(subVideos') : subVideos'[i] = subVideos'[j] => i = j
        /\ (allChannelVideos = <<>> \/ allChannelVideos' = allChannelVideos)
               => IsPrefix(subVideos, subVideos')
      ]_vars

\* the upload times of a list of videos
Times(list) == [i \in 1..Len(list) |-> list[i].upload_time]

\* C17: once fetchData has obtained the videos of every subscribed channel, the merged
\* list holds exactly the videos of all channels, newest first, videos of equal upload
\* time in the order they were fetched; for channels with upload times {10, 5, 1},
\* {9, 4} and {8} the merged list, and the feed shown, is [10, 9, 8, 5, 4, 1].
C17_MergedFeedSorted ==
    (srvSources # <<>> /\ subFetched = 1..Len(srvSources)) =>
        LET fetched == Flat(Len(srvSources), subFetched)
            \* fetch order: channel by channel, each channel's videos as listed
            earlier(x, y) == x.channel < y.channel \/ (x.channel = y.channel /\ x.k < y.k)
        IN /\ Len(allChannelVideos) = Len(fetched)
           /\ \A i \in 1..Len(fetched) :
                 \E j \in 1..Len(allChannelVideos) : allChannelVideos[j] = fetched[i]
           /\ \A i, j \in 1..Len(allChannelVideos) :
                 i < j => \/ allChannelVideos[i].upload_time > allChannelVideos[j].upload_time
                          \/ /\ allChannelVideos[i].upload_time = allChannelVideos[j].upload_time
                             /\ earlier(allChannelVideos[i], allChannelVideos[j])
           /\ srvSources = << <<10, 5, 1>>, <<9, 4>>, <<8>> >> =>
                 /\ Times(allChannelVideos) = <<10, 9, 8, 5, 4, 1>>
                 /\ Times(subVideos) = <<10, 9, 8, 5, 4, 1>>

C17_Witness ==
    /\ srvSources = << <<10, 5, 1>>, <<9, 4>>, <<8>> >>
    /\ subFetched = {1, 2, 3}
    /\ subLoads = {}
    /\ Times(subVideos) = <<10, 9, 8, 5, 4, 1>>

\* C18: once no loadVideoData is in flight, and none failed, the video, the channel,
\* the subscription status, the reaction and the related videos the page holds were
\* all loaded for the video of the latest navigation.
C18_StaleLoadDiscarded ==
    (pageLoads = {} /\ ~loadFailed) =>
        /\ subjectOf.video = videoId
        /\ subjectOf.channelData = videoId
        /\ subjectOf.relatedVideos = videoId
        /\ (isAuthenticated /\ channel /\ token) =>
              (subjectOf.userReaction = videoId /\ subjectOf.isSubscribed = videoId)

\* the seconds of the requests issued by `by`, in order
RECURSIVE SecondsBy(_, _)
SecondsBy(writes, by) ==
    IF writes = <<>> THEN <<>>
    ELSE (IF Head(writes).by \in by THEN <<Head(writes).seconds>> ELSE <<>>)
         \o SecondsBy(Tail(writes), by)

\* the ticks so far were those of the example, with no seek, for an authenticated
\* viewer
ScenarioPlayed ==
    /\ script = Len(Scenario)
    /\ nSeeks = 0
    /\ isAuthenticated /\ channel /\ token

SessionStartWrite == [seconds |-> 0, by |-> "render", video |-> videoId]

\* C19 as stated: after ticks at 1, 3, 4, 7 and 12 seconds the throttled writes
\* are those of positions 7 and 12, after the session-start write of position 0.
C19_TwoThrottledWrites ==
    ScenarioPlayed =>
        /\ SecondsBy(progressWrites, {"tick"}) = <<7, 12>>
        /\ Head(progressWrites) = SessionStartWrite

\* C19 as the code has it: after ticks at 1, 3, 4, 7 and 12 seconds the only
\* throttled write is that of position 7 (12 is not more than THROTTLE_SECONDS
\* after 7), after the session-start write of position 0.
C19_OneThrottledWrite ==
    ScenarioPlayed =>
        /\ SecondsBy(progressWrites, {"tick"}) = <<7>>
        /\ Head(progressWrites) = SessionStartWrite
        /\ lastReportedTime = 7 * PerSecond

C19_Witness ==
    /\ ScenarioPlayed
    /\ currentTime = 12 * PerSecond
    /\ SecondsBy(progressWrites, {"tick"}) = <<7>>

\* C20: for an authenticated viewer the session-start write is issued exactly
\* once in a session, however often the page renders.
C20_OneSessionStartWrite ==
    (isAuthenticated /\ channel /\ token) =>
        Len(SecondsBy(progressWrites, {"render"})) = 1


Authenticated == isAuthenticated /\ channel /\ token

\* a step that is a timeupdate event of the player
TickStep ==
    /\ currentTime' > currentTime
    /\ nSeeks' = nSeeks
    /\ nRenders' = nRenders

\* C21: a tick emits a progress write if and only if its position is more than 5
\* seconds away from lastReportedTime, and then lastReportedTime becomes that
\* position; a tick within the window emits nothing and leaves it unchanged.
C21_TickEmitsIffOutsideWindow ==
    [][TickStep =>
        IF Abs(currentTime' - lastReportedTime) > 5 * PerSecond
        THEN /\ lastReportedTime' = currentTime'
             /\ Authenticated =>
                  progressWrites' =
                      Append(progressWrites, [seconds |-> currentTime' \div PerSecond,
                                              by |-> "tick", video |-> videoId])
        ELSE /\ lastReportedTime' = lastReportedTime
             /\ progressWrites' = progressWrites]_vars

\* a tick was written, and a later tick within the window was not
C21_Witness ==
    /\ Authenticated
    /\ nSeeks = 0
    /\ SecondsBy(progressWrites, {"tick"}) # <<>>
    /\ currentTime > lastReportedTime
    /\ script = -1


\* a step that is a seek of the viewer
SeekStep == nSeeks' = nSeeks + 1

LastWrite == progressWrites[Len(progressWrites)]

\* C22: every seek emits at once a progress write carrying the seek target, however
\* close the target is to lastReportedTime, and sets lastReportedTime to the target;
\* a tick after it is written only when more than 5 seconds away from the target.
C22_SeekBypassesThrottle ==
    [][/\ SeekStep =>
            /\ lastReportedTime' = currentTime'
            /\ Authenticated =>
                 progressWrites' =
                     Append(progressWrites, [seconds |-> currentTime' \div PerSecond,
                                             by |-> "seek", video |-> videoId])
       /\ (/\ TickStep
           /\ Authenticated
           /\ LastWrite.by = "seek"
           /\ progressWrites' # progressWrites) =>
              Abs(currentTime' - lastReportedTime) > 5 * PerSecond]_vars

\* a seek to a target within the window of the last reported position was written
C22_Witness ==
    /\ Authenticated
    /\ nSeeks = 1
    /\ Len(progressWrites) >= 2
    /\ LastWrite.by = "seek"
    /\ Abs(LastWrite.seconds - progressWrites[Len(progressWrites) - 1].seconds) < 5
    /\ lastReportedTime = currentTime


\* C23: a progress write is issued only for an authenticated viewer, while the
\* watch page is shown, and for the video of the page's current route: a video
\* navigated away from, or a page that was left, gets no further write.
C23_NoWriteAfterSessionEnd ==
    [][progressWrites' # progressWrites =>
        /\ Authenticated
        /\ Len(progressWrites') = Len(progressWrites) + 1
        /\ videoId' # 0
        /\ progressWrites'[Len(progressWrites')].video = videoId']_vars

\* after a navigation the ticks of the new player were written for the new video,
\* the earlier writes being those of the video navigated from
C23_Witness ==
    /\ Authenticated
    /\ nNav = 1
    /\ PlayerShown(pageLoading, subjectOf.video)
    /\ LastWrite.by = "tick"
    /\ LastWrite.video = videoId
    /\ progressWrites[1].video # videoId


\* C24: within a session lastReportedTime becomes smaller only by a seek of the
\* viewer; the writes of ticks never move it backwards.
C24_LastReportedMovesForward ==
    [][(Authenticated /\ lastReportedTime' < lastReportedTime) => SeekStep]_vars


\* C25: the failure of a progress write changes nothing: the position and the state
\* of the player, lastReportedTime, the page and the requests issued (no retry) are
\* as they were before it.
C25_FailedWriteDropped ==
    [][log'.historyFailed # log.historyFailed =>
        UNCHANGED <<currentTime, lastReportedTime, progressWrites, videoId, subjectOf,
                    pageLoading, loadFailed>>]_vars

\* the write of a tick failed; lastReportedTime is the position of that tick and
\* playback has gone on
C25_Witness ==
    /\ Authenticated
    /\ Len(progressWrites) \in log.historyFailed
    /\ LastWrite.by = "tick"
    /\ Floor(lastReportedTime) = LastWrite.seconds
    /\ currentTime > lastReportedTime


\* C26: whenever the page is at a non-empty query, the first page of that query's
\* results is eventually shown, unless the query changes again first; also when the
\* query before it was showing its page 0.
C26_NewQueryEventuallyShown ==
    \A q \in Queries :
        (query = q) ~> (query # q \/ \E i \in 1..Len(videos) : videos[i].q = q)


\* C27: with the query unchanged, whatever tabs are switched to and whatever pages
\* are scrolled to, no page is appended twice: neither feed holds a result twice.
C27_NoPageAppendedTwice ==
    /\ \A i, j \in 1..Len(videos) : videos[i] = videos[j] => i = j
    /\ \A i, j \in 1..Len(channels) : channels[i] = channels[j] => i = j


\* C28: when no request for comments is outstanding and none has failed, the comments
\* shown are the pages 0..currentPage of the list, so that the next load-more, which
\* asks for page currentPage + 1, skips nothing; also after a failed reaction has
\* made the section fetch page 0 again.
C28_ShownPagesMatchCounter ==
    (fetches = {} /\ ~log.listFailed /\ srvInserted = 0) =>
        ShownIds = [i \in 1..Min(srvCount, (currentPage + 1) * PAGE_SIZE) |-> i]


\* C29: after one click on a reaction of the video, once its requests are over, the
\* reaction shown and the counts shown go together: both are those from before the
\* click or both are those after it; never the new reaction with the old counts.
C29_ReactionAndCountsTogether ==
    (Authenticated /\ clicks = 1 /\ reactionCalls = {}) =>
        video = [like_count |-> Count(userReaction = "like"),
                 dislike_count |-> Count(userReaction = "dislike")]


\* --------------------------------------------------------------- channel page runs
\* the channel page of another channel once loadChannel has run: channelData holds the
\* count the service gave and isSubscribed the subscription of a signed-in viewer
InitChannel ==
    /\ InitAuth
    /\ srvVideoReaction = "none"
    /\ srvCommentReaction = [c \in Tracked |-> "none"]
    /\ srvOthers = NoOthers
    /\ srvCount = NumComments
    /\ srvInserted = 0
    /\ InitWatch
    /\ comments = <<>>
    /\ currentPage = 0
    /\ hasMore = TRUE
    /\ isLoading = FALSE
    /\ commentCalls = {}
    /\ fetches = {}
    /\ nFetch = 0
    /\ clicks = 0
    /\ budget = [video |-> 0, comment |-> 0, fetches |-> 0, inserts |-> 0]
    /\ log = InitLog
    /\ SearchUnmounted
    /\ SubsUnmounted
    /\ NavUnmounted
    /\ ProgressUnmounted
    /\ srvSubscribed \in BOOLEAN
    /\ loadedChannel = [subscriber_count |-> OtherSubscribers + Count(srvSubscribed),
                        is_subscribed |-> channel /\ token /\ srvSubscribed]
    /\ channelData = [subscriber_count |-> loadedChannel.subscriber_count]
    /\ isSubscribed = loadedChannel.is_subscribed
    /\ subscribeCalls = {}
    /\ nSubscribe = 0

ChannelNext ==
    \/ handleSubscribe
    \/ \E r \in subscribeCalls : SubscriptionOk(r)
    \/ \E r \in subscribeCalls : SubscriptionFail(r)

SpecChannel == InitChannel /\ [][ChannelNext]_vars

\* how far the displayed subscriber count is from the loaded one
CountDrift == channelData.subscriber_count - loadedChannel.subscriber_count

\* C30: on the channel page the displayed subscriber_count is never more than one away
\* from the count loaded from the service; once no subscribe or unsubscribe call is in
\* flight it is the loaded count plus 1 if the viewer became subscribed, minus 1 if
\* the viewer became unsubscribed, and the loaded count otherwise; and isSubscribed
\* changes only when a subscribe or unsubscribe call succeeds
C30_CountFollowsSubscription ==
    /\ [](CountDrift \in {0 - 1, 0, 1})
    /\ [](subscribeCalls = {} =>
             CountDrift = Count(isSubscribed) - Count(loadedChannel.is_subscribed))
    /\ [][isSubscribed' # isSubscribed => \E r \in subscribeCalls : SubscriptionOk(r)]_vars

====
